---- MODULE Spec2Model ----
(***************************************************************************)
(* The streaming content splitter of src/src/components/Chat.jsx           *)
(* (render, renderWithCodeBlocks, renderStreamingContent) and the stream   *)
(* of 'update' chunks that feeds it.                                       *)
(*                                                                         *)
(* A JavaScript string is the sequence of its UTF-16 code units.  Indices   *)
(* passed between operators are the 0-based indices of the source, so      *)
(* Ch(s, i) is s[i] of the source and Slice(s, a, b) is s.slice(a, b).     *)
(***************************************************************************)
EXTENDS Integers, Sequences, FiniteSets, TLC

VARIABLES answer, parts, code, language, block, exec, console, clipboard,
          status, error, isRunning, messages, tps, posted, inbox, worker,
          dirty

vars ==
  <<answer, parts, code, language, block, exec, console, clipboard,
    status, error, isRunning, messages, tps, posted, inbox, worker, dirty>>

\* The variables of the App.
appVars ==
  <<status, error, isRunning, messages, tps, posted, inbox, worker, dirty>>

(***************************************************************************)
(* Characters are UTF-16 code units.  The streamed text is drawn from one  *)
(* representative of each class the regular expressions of the splitter    *)
(* tell apart: the backtick, a word character (\w), the newline (\n, also  *)
(* whitespace) and the space (whitespace, not \w).                         *)
(***************************************************************************)
\* The backtick.
BT == 96
\* The newline, \n.
NL == 10
\* The space.
SP == 32
\* The letter a.
WC == 97

\* The fence marker, three backticks.
Fence == <<BT, BT, BT>>

\* The string searched by text.lastIndexOf: a fence and a newline.
FenceNL == <<BT, BT, BT, NL>>

\* The bound of the model: the number of chunks (a fence, or one character) a
\* streamed answer is made of.
MaxTokens == 6

\* The chunks an 'update' message appends: a whole fence, or a single
\* character (so that a fence may also arrive split over several chunks).
Chunks == {Fence, <<BT>>, <<WC>>, <<NL>>, <<SP>>}

Min(S) == CHOOSE x \in S : \A y \in S : x <= y
Max(S) == CHOOSE x \in S : \A y \in S : x >= y

\* s.charCodeAt(i); -1 stands for NaN (i past the end).
Ch(s, i) == IF 0 <= i /\ i < Len(s) THEN s[i + 1] ELSE -1

\* s.slice(a, b) for 0 <= a, b <= s.length.
Slice(s, a, b) == SubSeq(s, a + 1, b)

\* The class \w of the regular expressions.
IsWord(c) == c \in (48..57) \cup (65..90) \cup {95} \cup (97..122)

\* The characters String.prototype.trim removes.
IsSpace(c) == c \in (9..13) \cup {32, 160, 5760, 8232, 8233, 8239, 8287, 12288, 65279} \cup (8192..8202)

\* s.trim()
Trim(s) ==
  LET I == {i \in 0..(Len(s) - 1) : ~IsSpace(Ch(s, i))}
  IN  IF I = {} THEN <<>> ELSE Slice(s, Min(I), Max(I) + 1)

\* pat occurs in s at index i.
MatchesAt(s, pat, i) ==
  /\ 0 <= i
  /\ i + Len(pat) <= Len(s)
  /\ \A k \in 1..Len(pat) : s[i + k] = pat[k]

\* s.indexOf(pat, from): the first occurrence at or after from, else -1.
IndexOf(s, pat, from) ==
  LET I == {i \in from..(Len(s) - Len(pat)) : MatchesAt(s, pat, i)}
  IN  IF I = {} THEN -1 ELSE Min(I)

\* s.lastIndexOf(pat, from): the last occurrence starting at or before from,
\* else -1.
LastIndexOf(s, pat, from) ==
  LET I == {i \in 0..(Len(s) - Len(pat)) : i <= from /\ MatchesAt(s, pat, i)}
  IN  IF I = {} THEN -1 ELSE Max(I)

\* The length of the longest run of \w characters of s that starts at index i.
WordRun(s, i) ==
  Max({n \in 0..(Len(s) - i) : \A k \in 0..(n - 1) : IsWord(Ch(s, i + k))})

(***************************************************************************)
(* render(text): the backslash shim, then marked.parse and                 *)
(* DOMPurify.sanitize.  The two libraries are outside the repository: the  *)
(* markup they return is the record that carries the markdown they were    *)
(* given.                                                                  *)
(***************************************************************************)
RECURSIVE EscapeBrackets(_)
EscapeBrackets(text) ==
  IF text = <<>> THEN <<>>
  ELSE IF Head(text) = 92 /\ Ch(text, 1) \in {91, 93, 40, 41}
       THEN <<92, 92, Ch(text, 1)>> \o EscapeBrackets(Slice(text, 2, Len(text)))
       ELSE <<Head(text)>> \o EscapeBrackets(Tail(text))

render(text) == [markdown |-> EscapeBrackets(text)]

(***************************************************************************)
(* codeBlockRegex = /```(\w+)?\n?([\s\S]*?)```/g                           *)
(***************************************************************************)
\* The ways the regex matches with its opening fence at index i: <<t, nl>>,
\* where t characters are taken by (\w+)? and nl is 1 iff \n? takes a
\* newline, such that a closing fence follows.
codeBlockWays(text, i) ==
  IF ~MatchesAt(text, Fence, i) THEN {}
  ELSE {w \in (0..WordRun(text, i + 3)) \X {0, 1} :
          /\ (w[2] = 1 => Ch(text, i + 3 + w[1]) = NL)
          /\ IndexOf(text, Fence, i + 3 + w[1] + w[2]) # -1}

\* The match the backtracking engine returns at index i: (\w+)? and \n? are
\* greedy, ([\s\S]*?) is lazy.
codeBlockMatchAt(text, i) ==
  LET ways == codeBlockWays(text, i)
      t == Max({w[1] : w \in ways})
      nl == Max({w[2] : w \in {v \in ways : v[1] = t}})
      close == IndexOf(text, Fence, i + 3 + t + nl)
  IN  [index |-> i,
       language |-> Slice(text, i + 3, i + 3 + t),
       body |-> Slice(text, i + 3 + t + nl, close),
       end |-> close + 3]

\* No match (exec returned null).
NoMatch == [index |-> -1, language |-> <<>>, body |-> <<>>, end |-> -1]

\* codeBlockRegex.exec(text) with codeBlockRegex.lastIndex = lastIndex.
codeBlockExec(text, lastIndex) ==
  LET I == {i \in lastIndex..(Len(text) - 3) : codeBlockWays(text, i) # {}}
  IN  IF I = {} THEN NoMatch ELSE codeBlockMatchAt(text, Min(I))

\* ReplaceOpeningFences with the bug of a pattern that runs to the end of the
\* text, /```[\s\S]*/g.
ReplaceOpeningFences_ToEnd(s) ==
  IF IndexOf(s, Fence, 0) = -1 THEN s ELSE Slice(s, 0, IndexOf(s, Fence, 0))

\* s.replace(/```[\w]*\n?/g, '')
RECURSIVE ReplaceOpeningFences(_)
ReplaceOpeningFences(s) ==
  IF s = <<>> THEN <<>>
  ELSE IF MatchesAt(s, Fence, 0)
       THEN LET t == WordRun(s, 3)
                nl == IF Ch(s, 3 + t) = NL THEN 1 ELSE 0
            IN  ReplaceOpeningFences(Slice(s, 3 + t + nl, Len(s)))
       ELSE <<Head(s)>> \o ReplaceOpeningFences(Tail(s))

\* s.replace(/```/g, '')
RECURSIVE ReplaceFences(_)
ReplaceFences(s) ==
  IF s = <<>> THEN <<>>
  ELSE IF MatchesAt(s, Fence, 0)
       THEN ReplaceFences(Slice(s, 3, Len(s)))
       ELSE <<Head(s)>> \o ReplaceFences(Tail(s))

\* cleanText of renderWithCodeBlocks.
cleanText(span) == ReplaceFences(ReplaceOpeningFences(span))

\* textParts with the bug of rendering the trimmed text.
textParts_Trimmed(span) ==
  IF Trim(span) # <<>> /\ Trim(cleanText(span)) # <<>>
  THEN <<[type |-> "text", content |-> render(Trim(cleanText(span)))]>>
  ELSE <<>>

\* The segments pushed for a span of text outside the code blocks
\* (beforeText, remainingText): none, or one 'text' segment.
textParts(span) ==
  IF Trim(span) # <<>> /\ Trim(cleanText(span)) # <<>>
  THEN <<[type |-> "text", content |-> render(cleanText(span))]>>
  ELSE <<>>

\* The segment pushed for a match of codeBlockRegex.
codePart(match) ==
  [type |-> "code", language |-> match.language, content |-> Trim(match.body)]

\* The while loop of renderWithCodeBlocks, from the state (lastIndex, parts):
\* the parts and lastIndex it ends with.
RECURSIVE scanCodeBlocks(_, _, _)
scanCodeBlocks(text, lastIndex, acc) ==
  LET match == codeBlockExec(text, lastIndex)
  IN  IF match.index = -1
      THEN [parts |-> acc, lastIndex |-> lastIndex]
      ELSE scanCodeBlocks(text, match.end,
             acc \o (IF match.index > lastIndex
                     THEN textParts(Slice(text, lastIndex, match.index))
                     ELSE <<>>)
                 \o <<codePart(match)>>)

\* The segments renderWithCodeBlocks has after its 'remaining text' step.
partsBeforeFallback(text) ==
  LET scan == scanCodeBlocks(text, 0, <<>>)
  IN  scan.parts \o (IF scan.lastIndex < Len(text)
                     THEN textParts(Slice(text, scan.lastIndex, Len(text)))
                     ELSE <<>>)

\* renderWithCodeBlocks with the bug of leaving out the fallback of lines 76-81.
renderWithCodeBlocks_NoFallback(text) == partsBeforeFallback(text)

renderWithCodeBlocks(text) ==
  LET found == partsBeforeFallback(text)
  IN  IF Len(found) = 0
      THEN <<[type |-> "text", content |-> render(text)]>>
      ELSE found

(***************************************************************************)
(* renderStreamingContent                                                  *)
(***************************************************************************)
\* text.match(/```[\w]*\n?[\s\S]*$/) is not null: a fence occurs ([\s\S]*$
\* takes whatever follows it).
matchesOpenToEnd(text) == \E i \in 0..(Len(text) - 3) : MatchesAt(text, Fence, i)

\* text.match(/```[\w]*\n?[\s\S]*?```$/) is not null: the text ends with a
\* fence and another fence ends before it starts.
matchesClosedAtEnd(text) ==
  \E i \in 0..(Len(text) - 6) :
    /\ MatchesAt(text, Fence, i)
    /\ \E t \in 0..WordRun(text, i + 3) : \E nl \in {0, 1} :
         /\ (nl = 1 => Ch(text, i + 3 + t) = NL)
         /\ i + 3 + t + nl <= Len(text) - 3
         /\ MatchesAt(text, Fence, Len(text) - 3)

hasIncompleteCodeBlock(text) == matchesOpenToEnd(text) /\ ~matchesClosedAtEnd(text)

lastCompleteCodeEnd(text) ==
  IF LastIndexOf(text, FenceNL, Len(text)) # -1
  THEN LastIndexOf(text, FenceNL, Len(text)) + 4
  ELSE 0

\* incompleteStart with the bug of taking the first fence of the text.
incompleteStart_First(text) == IndexOf(text, Fence, 0)

incompleteStart(text) == LastIndexOf(text, Fence, Len(text) - 1)

\* text.slice(incompleteStart).match(/```(\w+)?\n?([\s\S]*)/), for a tail that
\* starts with a fence: every quantifier is greedy and nothing follows.
incompleteMatch(tail) ==
  LET t == WordRun(tail, 3)
      nl == IF Ch(tail, 3 + t) = NL THEN 1 ELSE 0
  IN  [language |-> Slice(tail, 3, 3 + t),
       body |-> Slice(tail, 3 + t + nl, Len(tail))]

\* streamingParts with the bug of spreading beforeParts after the streaming
\* segment.
streamingParts_TailFirst(text) ==
  LET textBeforeIncomplete == Slice(text, 0, incompleteStart(text))
      m == incompleteMatch(Slice(text, incompleteStart(text), Len(text)))
      beforeParts == IF textBeforeIncomplete # <<>>
                     THEN renderWithCodeBlocks(textBeforeIncomplete)
                     ELSE <<>>
  IN  <<[type |-> "streaming-code",
         language |-> m.language,
         content |-> m.body]>> \o beforeParts

\* streamingParts with the bug of trimming the partial content as the
\* complete blocks are trimmed.
streamingParts_Trimmed(text) ==
  LET textBeforeIncomplete == Slice(text, 0, incompleteStart(text))
      m == incompleteMatch(Slice(text, incompleteStart(text), Len(text)))
      beforeParts == IF textBeforeIncomplete # <<>>
                     THEN renderWithCodeBlocks(textBeforeIncomplete)
                     ELSE <<>>
  IN  beforeParts \o <<[type |-> "streaming-code",
                        language |-> m.language,
                        content |-> Trim(m.body)]>>

\* The array returned when the incomplete block is split off.
streamingParts(text) ==
  LET textBeforeIncomplete == Slice(text, 0, incompleteStart(text))
      m == incompleteMatch(Slice(text, incompleteStart(text), Len(text)))
      beforeParts == IF textBeforeIncomplete # <<>>
                     THEN renderWithCodeBlocks(textBeforeIncomplete)
                     ELSE <<>>
  IN  beforeParts \o <<[type |-> "streaming-code",
                        language |-> m.language,
                        content |-> m.body]>>

renderStreamingContent(text) ==
  IF hasIncompleteCodeBlock(text) /\ incompleteStart(text) > lastCompleteCodeEnd(text)
  THEN streamingParts(text)
  ELSE renderWithCodeBlocks(text)

(***************************************************************************)
(* The source substrings the segments are produced from, as the index      *)
(* ranges [from, to) the two functions slice or match: one per segment     *)
(* pushed, in the order of the pushes.                                     *)
(***************************************************************************)
\* The while loop of renderWithCodeBlocks: text.slice(lastIndex, match.index)
\* when it yields a segment, then match[0].
RECURSIVE scanSpans(_, _, _)
scanSpans(text, lastIndex, acc) ==
  LET match == codeBlockExec(text, lastIndex)
  IN  IF match.index = -1
      THEN [spans |-> acc, lastIndex |-> lastIndex]
      ELSE scanSpans(text, match.end,
             acc \o (IF /\ match.index > lastIndex
                        /\ textParts(Slice(text, lastIndex, match.index)) # <<>>
                     THEN <<[from |-> lastIndex, to |-> match.index]>>
                     ELSE <<>>)
                 \o <<[from |-> match.index, to |-> match.end]>>)

\* renderWithCodeBlocks: the loop, text.slice(lastIndex) when it yields a
\* segment, and the whole text for the fallback.
spansWithCodeBlocks(text) ==
  LET scan == scanSpans(text, 0, <<>>)
      found == scan.spans \o
               (IF /\ scan.lastIndex < Len(text)
                   /\ textParts(Slice(text, scan.lastIndex, Len(text))) # <<>>
                THEN <<[from |-> scan.lastIndex, to |-> Len(text)]>>
                ELSE <<>>)
  IN  IF Len(found) = 0 THEN <<[from |-> 0, to |-> Len(text)]>> ELSE found

\* renderStreamingContent: text.slice(0, incompleteStart) split by
\* renderWithCodeBlocks, then text.slice(incompleteStart).
spansStreamingContent(text) ==
  IF hasIncompleteCodeBlock(text) /\ incompleteStart(text) > lastCompleteCodeEnd(text)
  THEN (IF Slice(text, 0, incompleteStart(text)) # <<>>
        THEN spansWithCodeBlocks(Slice(text, 0, incompleteStart(text)))
        ELSE <<>>)
       \o <<[from |-> incompleteStart(text), to |-> Len(text)]>>
  ELSE spansWithCodeBlocks(text)

(***************************************************************************)
(* The CodeBlock component of src/src/components/CodeBlock.jsx that shows  *)
(* one code segment: its props, its React state, the execution started by  *)
(* its run button, and the two objects it shares with the page (the        *)
(* console and the clipboard).  String literals of the source are written  *)
(* as their code units, with the text in the comment above them.           *)
(***************************************************************************)
\* 'javascript'
javascript == <<106, 97, 118, 97, 115, 99, 114, 105, 112, 116>>
\* 'python'
python == <<112, 121, 116, 104, 111, 110>>
\* 'html'
html == <<104, 116, 109, 108>>
\* 'css'
css == <<99, 115, 115>>
\* 'cpp'
cpp == <<99, 112, 112>>
\* 'java'
java == <<106, 97, 118, 97>>
\* 'text'
textLang == <<116, 101, 120, 116>>
\* 'unknown'
unknown == <<117, 110, 107, 110, 111, 119, 110>>

\* 'def ', 'import ', 'print('
pythonHints == {<<100, 101, 102, 32>>, <<105, 109, 112, 111, 114, 116, 32>>,
                  <<112, 114, 105, 110, 116, 40>>}
\* 'function ', 'const ', 'console.log'
javascriptHints == {<<102, 117, 110, 99, 116, 105, 111, 110, 32>>, <<99, 111,
                      110, 115, 116, 32>>, <<99, 111, 110, 115, 111, 108,
                      101, 46, 108, 111, 103>>}
\* '#include', 'int main'
cppHints == {<<35, 105, 110, 99, 108, 117, 100, 101>>, <<105, 110, 116, 32,
               109, 97, 105, 110>>}
\* 'public class', 'System.out'
javaHints == {<<112, 117, 98, 108, 105, 99, 32, 99, 108, 97, 115, 115>>,
                <<83, 121, 115, 116, 101, 109, 46, 111, 117, 116>>}

\* 'Initializing execution...'
msgInitializing == <<73, 110, 105, 116, 105, 97, 108, 105, 122, 105, 110,
                     103, 32, 101, 120, 101, 99, 117, 116, 105, 111, 110, 46,
                     46, 46>>
\* 'Loading Python environment...'
msgLoadingPython == <<76, 111, 97, 100, 105, 110, 103, 32, 80, 121, 116, 104,
                      111, 110, 32, 101, 110, 118, 105, 114, 111, 110, 109,
                      101, 110, 116, 46, 46, 46>>
\* 'Executing Python code...'
msgExecutingPython == <<69, 120, 101, 99, 117, 116, 105, 110, 103, 32, 80,
                        121, 116, 104, 111, 110, 32, 99, 111, 100, 101, 46,
                        46, 46>>
\* 'Execution not supported for '
msgNotSupported == <<69, 120, 101, 99, 117, 116, 105, 111, 110, 32, 110, 111,
                     116, 32, 115, 117, 112, 112, 111, 114, 116, 101, 100,
                     32, 102, 111, 114, 32>>
\* ' language yet.'
msgLanguageYet == <<32, 108, 97, 110, 103, 117, 97, 103, 101, 32, 121, 101,
                    116, 46>>
\* 'Code executed successfully (no output)'
msgNoOutput == <<67, 111, 100, 101, 32, 101, 120, 101, 99, 117, 116, 101,
                 100, 32, 115, 117, 99, 99, 101, 115, 115, 102, 117, 108,
                 108, 121, 32, 40, 110, 111, 32, 111, 117, 116, 112, 117,
                 116, 41>>
\* 'Error: '
msgError == <<69, 114, 114, 111, 114, 58, 32>>
\* 'Code executed successfully (no console output)'
msgNoConsoleOutput == <<67, 111, 100, 101, 32, 101, 120, 101, 99, 117, 116,
                        101, 100, 32, 115, 117, 99, 99, 101, 115, 115, 102,
                        117, 108, 108, 121, 32, 40, 110, 111, 32, 99, 111,
                        110, 115, 111, 108, 101, 32, 111, 117, 116, 112, 117,
                        116, 41>>
\* 'LOG: 1', what logs.join holds after the user code called console.log(1).
msgLogged == <<76, 79, 71, 58, 32, 49>>
\* 'originalLog is not defined', the message of the ReferenceError raised by
\* the catch block of executeJavaScript: originalLog is a const of the try
\* block and is not in scope in the catch block.
msgOriginalLog == <<111, 114, 105, 103, 105, 110, 97, 108, 76, 111, 103, 32,
                    105, 115, 32, 110, 111, 116, 32, 100, 101, 102, 105, 110,
                    101, 100>>
\* 'Python code executed successfully (no output)'
msgPythonNoOutput == <<80, 121, 116, 104, 111, 110, 32, 99, 111, 100, 101,
                       32, 101, 120, 101, 99, 117, 116, 101, 100, 32, 115,
                       117, 99, 99, 101, 115, 115, 102, 117, 108, 108, 121,
                       32, 40, 110, 111, 32, 111, 117, 116, 112, 117, 116,
                       41>>
\* '1', what mystdout holds after the user code called print(1).
msgPrinted == <<49>>
\* 'Python code executed successfully (simulated - no print statements detected)'
msgSimulatedNoPrint == <<80, 121, 116, 104, 111, 110, 32, 99, 111, 100, 101,
                         32, 101, 120, 101, 99, 117, 116, 101, 100, 32, 115,
                         117, 99, 99, 101, 115, 115, 102, 117, 108, 108, 121,
                         32, 40, 115, 105, 109, 117, 108, 97, 116, 101, 100,
                         32, 45, 32, 110, 111, 32, 112, 114, 105, 110, 116,
                         32, 115, 116, 97, 116, 101, 109, 101, 110, 116, 115,
                         32, 100, 101, 116, 101, 99, 116, 101, 100, 41>>
\* '\n[Note: Running in simulation mode - install Pyodide for full Python support]'
msgSimulationNote == <<10, 91, 78, 111, 116, 101, 58, 32, 82, 117, 110, 110,
                       105, 110, 103, 32, 105, 110, 32, 115, 105, 109, 117,
                       108, 97, 116, 105, 111, 110, 32, 109, 111, 100, 101,
                       32, 45, 32, 105, 110, 115, 116, 97, 108, 108, 32, 80,
                       121, 111, 100, 105, 100, 101, 32, 102, 111, 114, 32,
                       102, 117, 108, 108, 32, 80, 121, 116, 104, 111, 110,
                       32, 115, 117, 112, 112, 111, 114, 116, 93>>
\* 'HTML rendered successfully!\n'
msgHtmlRendered == <<72, 84, 77, 76, 32, 114, 101, 110, 100, 101, 114, 101,
                     100, 32, 115, 117, 99, 99, 101, 115, 115, 102, 117, 108,
                     108, 121, 33, 10>>
\* 'Body content: '
msgBodyContent == <<66, 111, 100, 121, 32, 99, 111, 110, 116, 101, 110, 116,
                    58, 32>>
\* 'No visible text content found'
msgNoVisibleText == <<78, 111, 32, 118, 105, 115, 105, 98, 108, 101, 32, 116,
                      101, 120, 116, 32, 99, 111, 110, 116, 101, 110, 116,
                      32, 102, 111, 117, 110, 100>>
\* 'CSS Analysis Complete!\n- '
msgCssComplete == <<67, 83, 83, 32, 65, 110, 97, 108, 121, 115, 105, 115, 32,
                    67, 111, 109, 112, 108, 101, 116, 101, 33, 10, 45, 32>>
\* ' CSS rule(s) found\n- '
msgCssRules == <<32, 67, 83, 83, 32, 114, 117, 108, 101, 40, 115, 41, 32,
                 102, 111, 117, 110, 100, 10, 45, 32>>
\* ' selector(s) detected\n- '
msgCssSelectors == <<32, 115, 101, 108, 101, 99, 116, 111, 114, 40, 115, 41,
                     32, 100, 101, 116, 101, 99, 116, 101, 100, 10, 45, 32>>
\* ' CSS property declaration(s)\n- Code syntax appears valid'
msgCssProperties == <<32, 67, 83, 83, 32, 112, 114, 111, 112, 101, 114, 116,
                      121, 32, 100, 101, 99, 108, 97, 114, 97, 116, 105, 111,
                      110, 40, 115, 41, 10, 45, 32, 67, 111, 100, 101, 32,
                      115, 121, 110, 116, 97, 120, 32, 97, 112, 112, 101, 97,
                      114, 115, 32, 118, 97, 108, 105, 100>>

\* s.includes(pat)
Includes(s, pat) == IndexOf(s, pat, 0) # -1

\* s.toLowerCase(), for the ASCII letters.
toLowerCase(s) ==
  [i \in DOMAIN s |-> IF s[i] \in 65..90 THEN s[i] + 32 ELSE s[i]]

\* String(n) for 0 <= n <= 9.
Digit(n) == <<48 + n>>

\* ' (simulated)'
msgSimulated == <<32, 40, 115, 105, 109, 117, 108, 97, 116, 101, 100, 41>>
\* 'print('
printCall == <<112, 114, 105, 110, 116, 40>>

\* The tags and the codes of the fenced blocks the CodeBlock is studied on:
\* an untagged block, tags of the allow-list in lower, upper and mixed case,
\* and a tag outside it; codes that the auto-detection tells apart.
\* '', 'python', 'CSS', 'html', 'JavaScript', 'js'
TagSamples == {<<>>, python, <<67, 83, 83>>, html, <<74, 97, 118, 97, 83, 99,
                 114, 105, 112, 116>>, <<106, 115>>}
\* 'def f', 'const x', 'print(1)', 'int main', 'x'
CodeSamples == {<<100, 101, 102, 32, 102>>, <<99, 111, 110, 115, 116, 32,
                  120>>, <<112, 114, 105, 110, 116, 40, 49, 41>>, <<105, 110,
                  116, 32, 109, 97, 105, 110>>, <<120>>}

\* useState: the state of a CodeBlock mounted with the prop code.
useState(c) ==
  [isEditing |-> FALSE,
   editedCode |-> c,
   output |-> <<>>,
   isRunning |-> FALSE,
   executionStatus |-> "idle",
   showOutput |-> FALSE,
   pyodide |-> FALSE,
   pyodideLoading |-> FALSE]

\* The console of the page: who each of its three methods is.  "native" is
\* the browser's function, "capture" a closure of executeJavaScript that
\* pushes onto the logs array of one call.
nativeConsole == [log |-> "native", error |-> "native", warn |-> "native"]

\* No executeCode is in flight.
idle == [pc |-> "idle", code |-> <<>>, ok |-> TRUE, value |-> <<>>]

\* The auto-detection of detectLanguage, from the content.
autoDetect(editedCode) ==
  IF \E h \in pythonHints : Includes(editedCode, h) THEN python
  ELSE IF \E h \in javascriptHints : Includes(editedCode, h) THEN javascript
  ELSE IF \E h \in cppHints : Includes(editedCode, h) THEN cpp
  ELSE IF \E h \in javaHints : Includes(editedCode, h) THEN java
  ELSE textLang

\* detectLanguage without toLowerCase.
detectLanguage_CaseSensitive ==
  IF language # <<>> THEN language ELSE autoDetect(block.editedCode)

\* detectLanguage(); Chat.jsx passes no className, so that branch is skipped.
detectLanguage ==
  IF language # <<>> THEN toLowerCase(language)
  ELSE autoDetect(block.editedCode)

lang == detectLanguage

canExecute == lang \in {javascript, python, html, css}

\* The buttons of the code-actions bar that are rendered.
codeActions ==
  {"copy", "edit"} \cup (IF canExecute THEN {"run"} ELSE {})

\* What the user code does when it is run: it ends without output, it
\* writes 1 to the console or to stdout, or it fails (a syntax error
\* included).
Behaviours == {"silent", "prints", "fails"}

\* The promise of executeJavaScript(code), settled when the call returns:
\* resolved with the captured output, or rejected.  On a failure the catch
\* block raises a ReferenceError at its first statement, before it restores
\* anything and before reject(new Error(...)); the promise is rejected with
\* that ReferenceError.
executeJavaScript(c, behaviour) ==
  CASE behaviour = "silent" ->
         [pc |-> "settle", code |-> c, ok |-> TRUE,
    value |-> msgNoConsoleOutput]
    [] behaviour = "prints" ->
         [pc |-> "settle", code |-> c, ok |-> TRUE, value |-> msgLogged]
    [] behaviour = "fails" ->
         [pc |-> "settle", code |-> c, ok |-> FALSE, value |-> msgOriginalLog]

\* The console after executeJavaScript: the three methods are overridden,
\* and set back to what they were at the call only on the path without
\* failure.
consoleAfterJavaScript(behaviour) ==
  LET original == console
      capture == [log |-> "capture", error |-> "capture", warn |-> "capture"]
  IN  IF behaviour = "fails" THEN capture ELSE original

\* pyodideInstance.runPython(code) and what follows it in executePython:
\* the captured output is returned, or the error is caught by the outer
\* catch, which falls back to executePythonSimulation.
runPython(c, behaviour) ==
  CASE behaviour = "silent" ->
         [pc |-> "settle", code |-> c, ok |-> TRUE,
    value |-> msgPythonNoOutput]
    [] behaviour = "prints" ->
         [pc |-> "settle", code |-> c, ok |-> TRUE, value |-> msgPrinted]
    [] behaviour = "fails" ->
         [pc |-> "simulation", code |-> c, ok |-> TRUE, value |-> <<>>]

\* The text executePythonSimulation resolves with, for a code with at most
\* one print call whose argument is not a string literal.
executePythonSimulation(c) ==
  LET i == IndexOf(c, printCall, 0)
      j == IF i = -1 \/ Ch(c, i + 6) = 41 THEN -1
           ELSE IndexOf(c, <<41>>, i + 7)
      content == IF j = -1 THEN <<>> ELSE Trim(Slice(c, i + 6, j))
      isNumber == \A k \in DOMAIN content : content[k] \in 48..57
  IN  IF content = <<>> THEN msgSimulatedNoPrint
      ELSE (IF isNumber THEN content ELSE content \o msgSimulated)
           \o msgSimulationNote

\* The text executeHTML resolves with, for a code without markup: the body
\* of the frame holds the code as text and the document has no title.
executeHTML(c) ==
  msgHtmlRendered
    \o (IF Trim(c) # <<>> THEN msgBodyContent \o Trim(c) ELSE msgNoVisibleText)

\* The text executeCSS resolves with; each count is at most 9.
executeCSS(c) ==
  LET ruleCount == Cardinality({i \in DOMAIN c : c[i] = 123})
      selectorCount ==
        Cardinality({i \in DOMAIN c :
                       c[i] = 123 /\ i > 1 /\ c[i - 1] \notin {123, 125}})
      propertyCount ==
        Cardinality({i \in DOMAIN c :
                       c[i] = 58 /\ i > 1 /\ c[i - 1] \notin {123, 125, 58}})
  IN  msgCssComplete \o Digit(ruleCount) \o msgCssRules
        \o Digit(selectorCount) \o msgCssSelectors
        \o Digit(propertyCount) \o msgCssProperties

(***************************************************************************)
(* The App component of src/src/App.jsx: its React state, the requests it  *)
(* posts to the worker, and the responses of the worker it handles.  The   *)
(* worker itself is not among the sources; it is the environment, and      *)
(* follows the protocol the specification names: a 'load' is answered by   *)
(* 'loading' and then 'ready' or 'error'; a 'generate' by 'start', some    *)
(* 'update' and then 'complete', or by 'error' in place of any of them.    *)
(***************************************************************************)
\* null, the initial value of status, error and tps.
Null == "null"

\* undefined, the answerIndex of a message that has none.
Undefined == -1

\* The bounds: how many messages the user submits, how many 'update' the
\* worker sends in all, how many requests are posted before the user stops
\* clicking Stop and Reset Chat, and how many responses of the worker wait
\* for their handler at a time.
MaxSubmissions == 2
MaxUpdates == 3
MaxPosted == 5
MaxInFlight == 2

\* e.data.output of an 'update': no text, or one character.
Outputs == {<<>>, <<WC>>}

\* e.data.state of an 'update'.
States == {"thinking", "answering"}

\* e.data.tps of an 'update': a rate, or a value that is falsy.
TpsSamples == {"12.5"}

\* tps && ...
Truthy(t) == t \notin {Null, "0"}

\* Nothing has changed since the last render.
clean == [messages |-> FALSE, isRunning |-> FALSE, other |-> FALSE]

\* The worker before it has taken a request.
workerIdle == [taken |-> 0, phase |-> "idle", updates |-> 0]

\* App mounted: the initial values of useState, and the 'check' request the
\* mount effect posts.
InitApp ==
  /\ status = Null
  /\ error = Null
  /\ isRunning = FALSE
  /\ messages = <<>>
  /\ tps = Null
  /\ posted = <<"check">>
  /\ inbox = <<>>
  /\ worker = workerIdle
  /\ dirty = clean

(***************************************************************************)
(* The stream.  An assistant message starts with empty content; every      *)
(* 'update' appends its output, and the Message component splits the       *)
(* answer again from scratch.                                              *)
(***************************************************************************)
\* The number of chunks the text is made of, at least.
RECURSIVE Tokens(_)
Tokens(s) ==
  IF s = <<>> THEN 0
  ELSE IF MatchesAt(s, Fence, 0) THEN 1 + Tokens(Slice(s, 3, Len(s)))
       ELSE 1 + Tokens(Tail(s))

\* The variables of the CodeBlock.
codeBlockVars == <<code, language, block, exec, console, clipboard>>

\* No message yet; the CodeBlock is left aside while the stream is studied.
Init ==
  /\ answer = <<>>
  /\ parts = renderStreamingContent(<<>>)
  /\ code = <<>>
  /\ language = <<>>
  /\ block = useState(code)
  /\ exec = idle
  /\ console = nativeConsole
  /\ clipboard = <<>>
  /\ InitApp

\* 'start': a new assistant message, content "".
Start ==
  /\ answer # <<>>
  /\ answer' = <<>>
  /\ parts' = renderStreamingContent(answer')
  /\ UNCHANGED codeBlockVars
  /\ UNCHANGED appVars

\* 'update': content becomes content + output, then the message renders.
Update(output) ==
  /\ Tokens(answer \o output) <= MaxTokens
  /\ answer' = answer \o output
  /\ parts' = renderStreamingContent(answer')
  /\ UNCHANGED codeBlockVars
  /\ UNCHANGED appVars

Next ==
  \/ Start
  \/ \E output \in Chunks : Update(output)

Spec == Init /\ [][Next]_vars

(***************************************************************************)
(* The handlers of the CodeBlock.  executeCode is an async function: the   *)
(* click runs it up to its first await, and each later step is the event   *)
(* (a script load, a timer, a frame load) that lets it go on.  exec.pc     *)
(* tells where the call in flight waits: "loadPyodide" for the script of   *)
(* loadPyodide, "simulation" for the timer of executePythonSimulation,     *)
(* "iframe" for the frame of executeHTML, and "settle" once the promise    *)
(* of the executor is settled and the rest of executeCode is queued as a   *)
(* microtask, before which no other handler runs.                          *)
(***************************************************************************)
\* No microtask is queued, so an event of the user can be handled.
UserCanAct == exec.pc # "settle"

\* startExecution that also puts the prop code back into editedCode.
startExecution_ResetsEdit ==
  [block EXCEPT !.isRunning = TRUE,
                !.executionStatus = "running",
                !.output = msgInitializing,
                !.showOutput = TRUE,
                !.editedCode = code]

\* The four setters executeCode calls before its try block.
startExecution ==
  [block EXCEPT !.isRunning = TRUE,
                !.executionStatus = "running",
                !.output = msgInitializing,
                !.showOutput = TRUE]

\* The end of the try block and the finally block of executeCode.
resolved(b, result) ==
  [b EXCEPT !.output = IF result # <<>> THEN result ELSE msgNoOutput,
            !.executionStatus = "success",
            !.isRunning = FALSE]

\* A catch block that reports the failure as a result.
rejected_AsSuccess(b, message) ==
  [b EXCEPT !.output = msgError \o message,
            !.executionStatus = "success",
            !.isRunning = FALSE]

\* The catch block and the finally block of executeCode.
rejected(b, message) ==
  [b EXCEPT !.output = msgError \o message,
            !.executionStatus = "error",
            !.isRunning = FALSE]

\* A default branch that throws instead of returning a message.
notSupported_Throws(b) ==
  rejected(b, msgNotSupported \o (IF lang # <<>> THEN lang ELSE unknown)
                \o msgLanguageYet)

\* The default branch of the switch of executeCode, which awaits nothing,
\* and the rest of executeCode after it.
notSupported(b) ==
  resolved(b, msgNotSupported \o (IF lang # <<>> THEN lang ELSE unknown)
                \o msgLanguageYet)

\* executeCode(), up to its first await.
executeCode(behaviour) ==
  LET started == startExecution
      c == block.editedCode
  IN  CASE lang = javascript ->
             /\ block' = started
             /\ exec' = executeJavaScript(c, behaviour)
             /\ console' = consoleAfterJavaScript(behaviour)
        [] lang = python ->
             /\ console' = console
             /\ IF block.pyodide
                THEN /\ block' = [started EXCEPT !.output = msgExecutingPython]
                     /\ exec' = runPython(c, behaviour)
                ELSE IF block.pyodideLoading
                THEN /\ block' = [started EXCEPT !.output = msgLoadingPython]
                     /\ exec' = [idle EXCEPT !.pc = "simulation", !.code = c]
                ELSE /\ block' = [started EXCEPT !.output = msgLoadingPython,
                                                 !.pyodideLoading = TRUE]
                     /\ exec' = [idle EXCEPT !.pc = "loadPyodide", !.code = c]
        [] lang = html ->
             /\ block' = started
             /\ exec' = [idle EXCEPT !.pc = "iframe", !.code = c]
             /\ console' = console
        [] lang = css ->
             /\ block' = started
             /\ exec' = [idle EXCEPT !.pc = "settle", !.code = c,
                                      !.value = executeCSS(c)]
             /\ console' = console
        [] OTHER ->
             /\ block' = notSupported(started)
             /\ exec' = exec
             /\ console' = console

\* A run button that is not disabled while isRunning.
ClickRun_NotDisabled ==
  /\ UserCanAct
  /\ "run" \in codeActions
  /\ \E behaviour \in Behaviours : executeCode(behaviour)
  /\ UNCHANGED <<answer, parts, code, language, clipboard>>
  /\ UNCHANGED appVars

\* A click on the run button, which is rendered when canExecute and is
\* disabled while isRunning.
ClickRun ==
  /\ UserCanAct
  /\ "run" \in codeActions
  /\ ~block.isRunning
  /\ \E behaviour \in Behaviours : executeCode(behaviour)
  /\ UNCHANGED <<answer, parts, code, language, clipboard>>
  /\ UNCHANGED appVars

\* executeCode called as the run button calls it, whatever lang is.
CallExecuteCode ==
  /\ UserCanAct
  /\ ~block.isRunning
  /\ \E behaviour \in Behaviours : executeCode(behaviour)
  /\ UNCHANGED <<answer, parts, code, language, clipboard>>
  /\ UNCHANGED appVars

\* script.onload of loadPyodide, window.loadPyodide resolving: the instance
\* is kept, and executePython goes on to run the code.
scriptOnload ==
  /\ exec.pc = "loadPyodide"
  /\ \E behaviour \in Behaviours :
       exec' = runPython(exec.code, behaviour)
  /\ block' = [block EXCEPT !.pyodide = TRUE,
                            !.pyodideLoading = FALSE,
                            !.output = msgExecutingPython]
  /\ UNCHANGED <<answer, parts, code, language, console, clipboard>>
  /\ UNCHANGED appVars

\* script.onerror of loadPyodide (or window.loadPyodide rejecting): the
\* catch of executePython falls back to executePythonSimulation.
scriptOnerror ==
  /\ exec.pc = "loadPyodide"
  /\ exec' = [exec EXCEPT !.pc = "simulation"]
  /\ block' = [block EXCEPT !.pyodideLoading = FALSE]
  /\ UNCHANGED <<answer, parts, code, language, console, clipboard>>
  /\ UNCHANGED appVars

\* The timer of executePythonSimulation.
simulationTimeout ==
  /\ exec.pc = "simulation"
  /\ exec' = [exec EXCEPT !.pc = "settle",
                          !.value = executePythonSimulation(exec.code)]
  /\ UNCHANGED <<answer, parts, code, language, block, console, clipboard>>
  /\ UNCHANGED appVars

\* iframe.onload of executeHTML and its timer.
iframeOnload ==
  /\ exec.pc = "iframe"
  /\ exec' = [exec EXCEPT !.pc = "settle", !.value = executeHTML(exec.code)]
  /\ UNCHANGED <<answer, parts, code, language, block, console, clipboard>>
  /\ UNCHANGED appVars

\* The rest of executeCode after its await: the try block ends or the catch
\* block runs, then the finally block.
executeCodeSettles ==
  /\ exec.pc = "settle"
  /\ block' = IF exec.ok THEN resolved(block, exec.value)
              ELSE rejected(block, exec.value)
  /\ exec' = idle
  /\ UNCHANGED <<answer, parts, code, language, console, clipboard>>
  /\ UNCHANGED appVars

\* A click on the edit button.
ClickEdit ==
  /\ UserCanAct
  /\ "edit" \in codeActions
  /\ ~block.isEditing
  /\ block' = [block EXCEPT !.isEditing = TRUE]
  /\ UNCHANGED <<answer, parts, code, language, exec, console, clipboard>>
  /\ UNCHANGED appVars

\* onChange of the textarea of the editor.
onChange(value) ==
  /\ UserCanAct
  /\ block.isEditing
  /\ block' = [block EXCEPT !.editedCode = value]
  /\ UNCHANGED <<answer, parts, code, language, exec, console, clipboard>>
  /\ UNCHANGED appVars

\* A click on "Cancel changes".
ClickCancel ==
  /\ UserCanAct
  /\ block.isEditing
  /\ block' = [block EXCEPT !.editedCode = code, !.isEditing = FALSE]
  /\ UNCHANGED <<answer, parts, code, language, exec, console, clipboard>>
  /\ UNCHANGED appVars

\* A click on "Save changes", or on the backdrop of the editor.
ClickSave ==
  /\ UserCanAct
  /\ block.isEditing
  /\ block' = [block EXCEPT !.isEditing = FALSE]
  /\ UNCHANGED <<answer, parts, code, language, exec, console, clipboard>>
  /\ UNCHANGED appVars

\* copyToClipboard(): writeText(editedCode) succeeds, or fails and the
\* failure is logged.
copyToClipboard ==
  /\ UserCanAct
  /\ "copy" \in codeActions
  /\ \E written \in BOOLEAN :
       clipboard' = IF written THEN block.editedCode ELSE clipboard
  /\ UNCHANGED <<answer, parts, code, language, block, exec, console>>
  /\ UNCHANGED appVars

\* A click on "Hide output".
HideOutput ==
  /\ UserCanAct
  /\ block.showOutput
  /\ block' = [block EXCEPT !.showOutput = FALSE]
  /\ UNCHANGED <<answer, parts, code, language, exec, console, clipboard>>
  /\ UNCHANGED appVars

\* The parts that Message shows with a CodeBlock.
isCodeBlock(p) == p.type \in {"code", "streaming-code"}

\* The place among the parts of the CodeBlock under study: the first one.
codeSlot(ps) ==
  IF \E k \in DOMAIN ps : isCodeBlock(ps[k])
  THEN Min({k \in DOMAIN ps : isCodeBlock(ps[k])})
  ELSE 0

\* The longest code the stream is followed to.
MaxCodeLen == 3

\* The chunks of the 'update' messages that reach a mounted CodeBlock: one
\* more character of code, '1', or the end of the block, '\n```'.
CodeChunks == {<<49>>, <<NL>> \o Fence}

\* An assistant message that holds one fenced block, shown by one
\* CodeBlock: the message is finished, or it is still streamed ('a', the
\* fence line and the first character of the code, 'x', have arrived) and
\* the block is not closed yet.
InitCodeBlock ==
  /\ \/ \E tag \in TagSamples, body \in CodeSamples :
          answer = Fence \o tag \o <<NL>> \o body \o <<NL>> \o Fence
     \/ \E tag \in TagSamples :
          answer = <<WC>> \o Fence \o tag \o <<NL>> \o <<120>>
  /\ parts = renderStreamingContent(answer)
  /\ codeSlot(parts) # 0
  /\ code = parts[codeSlot(parts)].content
  /\ language = parts[codeSlot(parts)].language
  /\ block = useState(code)
  /\ exec = idle
  /\ console = nativeConsole
  /\ clipboard = <<>>
  /\ InitApp

\* UpdateCodeBlock without the effect on [code].
UpdateCodeBlock_KeepsEdit(output) ==
  /\ UserCanAct
  /\ parts[Len(parts)].type = "streaming-code"
  /\ Len(code) < MaxCodeLen
  /\ answer' = answer \o output
  /\ parts' = renderStreamingContent(answer')
  /\ codeSlot(parts') = codeSlot(parts)
  /\ code' = parts'[codeSlot(parts')].content
  /\ language' = parts'[codeSlot(parts')].language
  /\ UNCHANGED <<block, exec, console, clipboard>>
  /\ UNCHANGED appVars

\* 'update' while the block is streamed: the message is split again, the
\* CodeBlock stays mounted at its place and gets the new props, and its
\* effect on [code] puts a changed code into editedCode.
UpdateCodeBlock(output) ==
  /\ UserCanAct
  /\ parts[Len(parts)].type = "streaming-code"
  /\ Len(code) < MaxCodeLen
  /\ answer' = answer \o output
  /\ parts' = renderStreamingContent(answer')
  /\ codeSlot(parts') = codeSlot(parts)
  /\ code' = parts'[codeSlot(parts')].content
  /\ language' = parts'[codeSlot(parts')].language
  /\ block' = IF code' # code THEN [block EXCEPT !.editedCode = code']
              ELSE block
  /\ UNCHANGED <<exec, console, clipboard>>
  /\ UNCHANGED appVars

\* The steps of an execution after the click.
ExecutionSteps ==
  \/ scriptOnload
  \/ scriptOnerror
  \/ simulationTimeout
  \/ iframeOnload
  \/ executeCodeSettles

\* The other events of the user.
UserSteps ==
  \/ ClickEdit
  \/ \E value \in CodeSamples : onChange(value)
  \/ ClickCancel
  \/ ClickSave
  \/ copyToClipboard
  \/ HideOutput

\* The stream into the block.
StreamSteps == \E output \in CodeChunks : UpdateCodeBlock(output)

NextCodeBlock == ClickRun \/ ExecutionSteps \/ UserSteps \/ StreamSteps

SpecCodeBlock == InitCodeBlock /\ [][NextCodeBlock]_vars

NextExecuteCode ==
  CallExecuteCode \/ ExecutionSteps \/ UserSteps \/ StreamSteps

\* The CodeBlock with executeCode called whatever lang is: the run button
\* is not rendered for a lang outside the allow-list, so its click never
\* reaches the default branch of executeCode.
SpecExecuteCode == InitCodeBlock /\ [][NextExecuteCode]_vars

(***************************************************************************)
(* The handlers of the App.  A handler of a user event is followed at once *)
(* by its render and by the effects of that render; the updates of a       *)
(* worker response wait for the next render, which several responses may   *)
(* share.  dirty tells what has been set since the last render.            *)
(***************************************************************************)
\* The requests of one type among the posted ones.
Requests(type) == {i \in DOMAIN posted : posted[i] = type}

\* The effect on [messages, isRunning] posts a 'generate': some message is
\* of the user and the last one is not of the assistant.
postsGenerate(msgs) ==
  /\ \E i \in DOMAIN msgs : msgs[i].role = "user"
  /\ msgs[Len(msgs)].role # "assistant"

\* The effect on [messages, isRunning] without its test of the last
\* message.
generateEffect_AnyLast(msgs, reqs) ==
  IF \E i \in DOMAIN msgs : msgs[i].role = "user"
  THEN Append(reqs, "generate")
  ELSE reqs

\* The requests after the effect on [messages, isRunning] has run.
generateEffect(msgs, reqs) ==
  IF postsGenerate(msgs) THEN Append(reqs, "generate") ELSE reqs

\* isRunning as the last render showed it.
renderedIsRunning == isRunning # dirty.isRunning

\* onEnter from an input that is not locked while isRunning.
onEnter_WhileRunning ==
  /\ dirty = clean
  /\ status = "ready"
  /\ Cardinality(Requests("generate")) < MaxSubmissions
  /\ messages' = Append(messages, [role |-> "user", content |-> <<WC>>,
                                   answerIndex |-> Undefined])
  /\ tps' = Null
  /\ isRunning' = TRUE
  /\ posted' = generateEffect(messages', posted)
  /\ UNCHANGED <<status, error, inbox, worker, dirty>>
  /\ UNCHANGED <<answer, parts>>
  /\ UNCHANGED codeBlockVars

\* onEnter(message), from the textarea, the send button or an example
\* card, then the render and the effect, which also calls setTps(null).
onEnter ==
  /\ dirty = clean
  /\ status = "ready"
  /\ ~isRunning \/ messages = <<>>
  /\ Cardinality(Requests("generate")) < MaxSubmissions
  /\ messages' = Append(messages, [role |-> "user", content |-> <<WC>>,
                                   answerIndex |-> Undefined])
  /\ tps' = Null
  /\ isRunning' = TRUE
  /\ posted' = generateEffect(messages', posted)
  /\ UNCHANGED <<status, error, inbox, worker, dirty>>
  /\ UNCHANGED <<answer, parts>>
  /\ UNCHANGED codeBlockVars

\* onInterrupt that also unlocks the input.
onInterrupt_Unlocks ==
  /\ renderedIsRunning
  /\ Len(posted) < MaxPosted
  /\ posted' = Append(posted, "interrupt")
  /\ isRunning' = FALSE
  /\ UNCHANGED <<status, error, messages, tps, inbox, worker, dirty>>
  /\ UNCHANGED <<answer, parts>>
  /\ UNCHANGED codeBlockVars

\* onInterrupt(), from the stop button, which is shown while isRunning.
onInterrupt ==
  /\ renderedIsRunning
  /\ Len(posted) < MaxPosted
  /\ posted' = Append(posted, "interrupt")
  /\ UNCHANGED <<status, error, isRunning, messages, tps, inbox, worker, dirty>>
  /\ UNCHANGED <<answer, parts>>
  /\ UNCHANGED codeBlockVars

\* A load button that stays after its click.
ClickLoad_Twice ==
  /\ dirty = clean
  /\ status \in {Null, "loading"}
  /\ messages = <<>>
  /\ error = Null
  /\ Len(posted) < MaxPosted
  /\ posted' = Append(posted, "load")
  /\ status' = "loading"
  /\ UNCHANGED <<error, isRunning, messages, tps, inbox, worker, dirty>>
  /\ UNCHANGED <<answer, parts>>
  /\ UNCHANGED codeBlockVars

\* A click on the load button, which is shown while status is null and
\* there is no message, and is disabled once status or error is set.
ClickLoad ==
  /\ dirty = clean
  /\ status = Null
  /\ messages = <<>>
  /\ error = Null
  /\ posted' = Append(posted, "load")
  /\ status' = "loading"
  /\ UNCHANGED <<error, isRunning, messages, tps, inbox, worker, dirty>>
  /\ UNCHANGED <<answer, parts>>
  /\ UNCHANGED codeBlockVars

\* A click on Reset Chat, which is shown in the chat once tps is set, there
\* is a message and isRunning is false; then the render and the effect.
ResetChat ==
  /\ dirty = clean
  /\ status = "ready"
  /\ Truthy(tps)
  /\ messages # <<>>
  /\ ~isRunning
  /\ Len(posted) < MaxPosted
  /\ messages' = <<>>
  /\ posted' = generateEffect(messages', Append(posted, "reset"))
  /\ UNCHANGED <<status, error, isRunning, tps, inbox, worker, dirty>>
  /\ UNCHANGED <<answer, parts>>
  /\ UNCHANGED codeBlockVars

\* The updater of 'update' that sets answerIndex at every 'answering'.
updateLast_Resets(last, output, state) ==
  [last EXCEPT !.content = last.content \o output,
               !.answerIndex = IF state = "answering"
                               THEN Len(last.content)
                               ELSE last.answerIndex]

\* The updater of 'update', for the last message.
updateLast(last, output, state) ==
  [last EXCEPT !.content = last.content \o output,
               !.answerIndex = IF last.answerIndex = Undefined
                                  /\ state = "answering"
                               THEN Len(last.content)
                               ELSE last.answerIndex]

\* The updater of 'update' that writes the first message.
updateMessages_First(msgs, output, state) ==
  [msgs EXCEPT ![1] = updateLast(msgs[Len(msgs)], output, state)]

\* The updater of 'update', for the list.
updateMessages(msgs, output, state) ==
  [msgs EXCEPT ![Len(msgs)] = updateLast(msgs[Len(msgs)], output, state)]

\* onMessageReceived, for the response at the head of the channel.
onLoading ==
  /\ inbox # <<>>
  /\ Head(inbox).status = "loading"
  /\ status' = "loading"
  /\ dirty' = [dirty EXCEPT !.other = TRUE]
  /\ inbox' = Tail(inbox)
  /\ UNCHANGED <<error, isRunning, messages, tps, posted, worker>>
  /\ UNCHANGED <<answer, parts>>
  /\ UNCHANGED codeBlockVars

onReady ==
  /\ inbox # <<>>
  /\ Head(inbox).status = "ready"
  /\ status' = "ready"
  /\ dirty' = [dirty EXCEPT !.other = TRUE]
  /\ inbox' = Tail(inbox)
  /\ UNCHANGED <<error, isRunning, messages, tps, posted, worker>>
  /\ UNCHANGED <<answer, parts>>
  /\ UNCHANGED codeBlockVars

onStart ==
  /\ inbox # <<>>
  /\ Head(inbox).status = "start"
  /\ messages' = Append(messages, [role |-> "assistant", content |-> <<>>,
                                   answerIndex |-> Undefined])
  /\ dirty' = [dirty EXCEPT !.messages = TRUE]
  /\ inbox' = Tail(inbox)
  /\ UNCHANGED <<status, error, isRunning, tps, posted, worker>>
  /\ UNCHANGED <<answer, parts>>
  /\ UNCHANGED codeBlockVars

\* 'update'; with no message the updater raises a TypeError and the list
\* stays as it is.
onUpdate ==
  /\ inbox # <<>>
  /\ Head(inbox).status = "update"
  /\ tps' = Head(inbox).tps
  /\ messages' = IF messages = <<>> THEN messages
                 ELSE updateMessages(messages, Head(inbox).output,
                                     Head(inbox).state)
  /\ dirty' = [dirty EXCEPT !.messages = TRUE]
  /\ inbox' = Tail(inbox)
  /\ UNCHANGED <<status, error, isRunning, posted, worker>>
  /\ UNCHANGED <<answer, parts>>
  /\ UNCHANGED codeBlockVars

onComplete ==
  /\ inbox # <<>>
  /\ Head(inbox).status = "complete"
  /\ isRunning' = FALSE
  /\ dirty' = [dirty EXCEPT !.isRunning = @ # isRunning]
  /\ inbox' = Tail(inbox)
  /\ UNCHANGED <<status, error, messages, tps, posted, worker>>
  /\ UNCHANGED <<answer, parts>>
  /\ UNCHANGED codeBlockVars

onError ==
  /\ inbox # <<>>
  /\ Head(inbox).status = "error"
  /\ error' = Head(inbox).data
  /\ dirty' = [dirty EXCEPT !.other = TRUE]
  /\ inbox' = Tail(inbox)
  /\ UNCHANGED <<status, isRunning, messages, tps, posted, worker>>
  /\ UNCHANGED <<answer, parts>>
  /\ UNCHANGED codeBlockVars

\* The render of the updates of the worker's responses, and its effects:
\* the effect on [messages, isRunning] runs when one of the two was set.
Render ==
  /\ dirty # clean
  /\ dirty' = clean
  /\ IF dirty.messages \/ dirty.isRunning
     THEN /\ posted' = generateEffect(messages, posted)
          /\ tps' = IF postsGenerate(messages) THEN Null ELSE tps
     ELSE UNCHANGED <<posted, tps>>
  /\ UNCHANGED <<status, error, isRunning, messages, inbox, worker>>
  /\ UNCHANGED <<answer, parts>>
  /\ UNCHANGED codeBlockVars

(***************************************************************************)
(* The worker.  It takes the posted requests in order, a 'load' or a       *)
(* 'generate' when the one before is answered.  A generation ends at any   *)
(* time, interrupted or not.  The worker is followed while fewer than      *)
(* MaxInFlight of its responses wait for their handler.                    *)
(***************************************************************************)
\* A response without data.
Response(s) ==
  [status |-> s, output |-> <<>>, state |-> "thinking", tps |-> Null,
   data |-> Null]

\* The worker takes the next request.
WorkerTake ==
  /\ worker.taken < Len(posted)
  /\ LET type == posted[worker.taken + 1]
         took == [worker EXCEPT !.taken = @ + 1]
     IN  CASE type = "check" ->
                /\ worker' = took
                /\ \E supported \in BOOLEAN :
                     inbox' = IF supported THEN inbox
                              ELSE Append(inbox, [Response("error") EXCEPT
                                                    !.data = "unsupported"])
           [] type = "load" ->
                /\ worker.phase = "idle"
                /\ worker' = [took EXCEPT !.phase = "loading"]
                /\ inbox' = Append(inbox, Response("loading"))
           [] type = "generate" ->
                /\ worker.phase = "ready"
                /\ worker' = [took EXCEPT !.phase = "generate"]
                /\ inbox' = inbox
           [] type \in {"interrupt", "reset"} ->
                /\ worker' = took
                /\ inbox' = inbox
  /\ UNCHANGED <<status, error, isRunning, messages, tps, posted, dirty>>
  /\ UNCHANGED <<answer, parts>>
  /\ UNCHANGED codeBlockVars

\* The model is loaded, or its loading fails.
WorkerLoaded ==
  /\ worker.phase = "loading"
  /\ Len(inbox) < MaxInFlight
  /\ \E loaded \in BOOLEAN :
       IF loaded
       THEN /\ worker' = [worker EXCEPT !.phase = "ready"]
            /\ inbox' = Append(inbox, Response("ready"))
       ELSE /\ worker' = [worker EXCEPT !.phase = "idle"]
            /\ inbox' = Append(inbox, [Response("error") EXCEPT
                                         !.data = "failed"])
  /\ UNCHANGED <<status, error, isRunning, messages, tps, posted, dirty>>
  /\ UNCHANGED <<answer, parts>>
  /\ UNCHANGED codeBlockVars

WorkerStart ==
  /\ worker.phase = "generate"
  /\ Len(inbox) < MaxInFlight
  /\ worker' = [worker EXCEPT !.phase = "streaming"]
  /\ inbox' = Append(inbox, Response("start"))
  /\ UNCHANGED <<status, error, isRunning, messages, tps, posted, dirty>>
  /\ UNCHANGED <<answer, parts>>
  /\ UNCHANGED codeBlockVars

WorkerUpdate(output, state, rate) ==
  /\ worker.phase = "streaming"
  /\ Len(inbox) < MaxInFlight
  /\ worker.updates < MaxUpdates
  /\ worker' = [worker EXCEPT !.updates = @ + 1]
  /\ inbox' = Append(inbox, [Response("update") EXCEPT !.output = output,
                                                       !.state = state,
                                                       !.tps = rate])
  /\ UNCHANGED <<status, error, isRunning, messages, tps, posted, dirty>>
  /\ UNCHANGED <<answer, parts>>
  /\ UNCHANGED codeBlockVars

WorkerComplete ==
  /\ worker.phase = "streaming"
  /\ Len(inbox) < MaxInFlight
  /\ worker' = [worker EXCEPT !.phase = "ready"]
  /\ inbox' = Append(inbox, Response("complete"))
  /\ UNCHANGED <<status, error, isRunning, messages, tps, posted, dirty>>
  /\ UNCHANGED <<answer, parts>>
  /\ UNCHANGED codeBlockVars

\* The generation fails, before or after its 'start'.
WorkerError ==
  /\ worker.phase \in {"generate", "streaming"}
  /\ Len(inbox) < MaxInFlight
  /\ worker' = [worker EXCEPT !.phase = "ready"]
  /\ inbox' = Append(inbox, [Response("error") EXCEPT !.data = "failed"])
  /\ UNCHANGED <<status, error, isRunning, messages, tps, posted, dirty>>
  /\ UNCHANGED <<answer, parts>>
  /\ UNCHANGED codeBlockVars

\* No message is shown while the App is studied.
InitAppOnly ==
  /\ answer = <<>>
  /\ parts = renderStreamingContent(<<>>)
  /\ code = <<>>
  /\ language = <<>>
  /\ block = useState(code)
  /\ exec = idle
  /\ console = nativeConsole
  /\ clipboard = <<>>
  /\ InitApp

UserEvents == onEnter \/ onInterrupt \/ ClickLoad \/ ResetChat

WorkerResponses ==
  onLoading \/ onReady \/ onStart \/ onUpdate \/ onComplete \/ onError

WorkerSteps ==
  \/ WorkerTake
  \/ WorkerLoaded
  \/ WorkerStart
  \/ \E output \in Outputs, state \in States, rate \in TpsSamples :
       WorkerUpdate(output, state, rate)
  \/ WorkerComplete
  \/ WorkerError

NextApp == UserEvents \/ WorkerResponses \/ Render \/ WorkerSteps

SpecApp == InitAppOnly /\ [][NextApp]_vars

\* The event loop delivers every response to onMessageReceived and React
\* renders what was set; the worker takes its requests, and ends what it
\* has begun: a load, and a generation by 'complete' or by 'error'.  The
\* user is not bound to do anything.
FairApp ==
  /\ WF_vars(WorkerResponses)
  /\ WF_vars(Render)
  /\ WF_vars(WorkerTake)
  /\ WF_vars(WorkerLoaded)
  /\ WF_vars(WorkerStart)
  /\ WF_vars(WorkerComplete \/ WorkerError)

SpecAppFair == SpecApp /\ FairApp

(***************************************************************************)
(* The vocabulary of the properties.                                       *)
(***************************************************************************)
\* The indices at which a fence occurs in s, overlapping occurrences included.
FenceAt(s) == {i \in 0..(Len(s) - 3) : MatchesAt(s, Fence, i)}

\* The fence markers of s: its occurrences read from left to right without
\* overlap, as indices.
RECURSIVE MarkersFrom(_, _)
MarkersFrom(s, from) ==
  LET i == IndexOf(s, Fence, from)
  IN  IF i = -1 THEN <<>> ELSE <<i>> \o MarkersFrom(s, i + 3)

Markers(s) == MarkersFrom(s, 0)

\* The last marker of s is an opening fence: the markers before it pair up.
EndsInOpenFence(s) == Len(Markers(s)) % 2 = 1

Last(s) == s[Len(s)]

Front(s) == SubSeq(s, 1, Len(s) - 1)

\* a is b with some elements left out.
RECURSIVE IsSubseq(_, _)
IsSubseq(a, b) ==
  IF a = <<>> THEN TRUE
  ELSE IF b = <<>> THEN FALSE
  ELSE IF Head(a) = Head(b) THEN IsSubseq(Tail(a), Tail(b))
  ELSE IsSubseq(a, Tail(b))

Types(ps) == [k \in DOMAIN ps |-> ps[k].type]

HasStreamingTail(ps) == ps # <<>> /\ Last(ps).type = "streaming-code"

\* The tag that follows the fence at index i: its run of word characters.
TagAfter(s, i) == Slice(s, i + 3, i + 3 + WordRun(s, i + 3))

\* The text after the fence line of the fence at index i: what follows the
\* tag and the newline that ends the line, if there is one.
TextAfterFenceLine(s, i) ==
  LET e == i + 3 + WordRun(s, i + 3)
  IN  Slice(s, IF Ch(s, e) = NL THEN e + 1 ELSE e, Len(s))

\* s is prefix + fenced block + suffix with the fences at i and j: no other
\* fence occurs, and the opening fence line is a tag and a newline.
IsSingleBlock(s, i, j) ==
  /\ FenceAt(s) = {i, j}
  /\ i + 3 <= j
  /\ Ch(s, i + 3 + WordRun(s, i + 3)) = NL
  /\ i + 3 + WordRun(s, i + 3) < j

(***************************************************************************)
(* Properties.                                                             *)
(***************************************************************************)
\* C1: when the input ends in an unterminated fence, whatever precedes it,
\* the last segment is StreamingCode with that fence's tag and the text after
\* the fence line, and the trailing block yields no CompleteCode segment (the
\* complete segments are those of the paired markers before it).
C1_UnterminatedFenceStreams ==
  EndsInOpenFence(answer) =>
    LET open == Last(Markers(answer))
    IN  /\ HasStreamingTail(parts)
        /\ Last(parts).language = TagAfter(answer, open)
        /\ Last(parts).content = TextAfterFenceLine(answer, open)
        /\ Cardinality({k \in DOMAIN parts : parts[k].type = "code"})
             = (Len(Markers(answer)) - 1) \div 2

\* C2: for prefix + fenced block (tag L, body B) + suffix with no other
\* fence, the output is a Prose segment iff the trimmed prefix is non-empty,
\* then CompleteCode with language L and content B.trim(), then a Prose
\* segment iff the trimmed suffix is non-empty, and nothing else.
C2_SingleBlockSplit ==
  \A i, j \in 0..Len(answer) :
    IsSingleBlock(answer, i, j) =>
      LET t == WordRun(answer, i + 3)
          k == IF Trim(Slice(answer, 0, i)) # <<>> THEN 2 ELSE 1
          n == IF Trim(Slice(answer, j + 3, Len(answer))) # <<>> THEN k + 1 ELSE k
      IN  /\ Len(parts) = n
          /\ parts[k] = [type |-> "code",
                         language |-> Slice(answer, i + 3, i + 3 + t),
                         content |-> Trim(Slice(answer, i + 3 + t + 1, j))]
          /\ \A m \in DOMAIN parts \ {k} : parts[m].type = "text"

\* C3: monotonic streaming: when text is appended to a buffer whose output
\* ends in StreamingCode, the segments before that tail appear unchanged and
\* in the same order in the output for the longer buffer.
C3_MonotonicStreaming ==
  [][(/\ HasStreamingTail(parts)
      /\ Len(answer') > Len(answer)
      /\ SubSeq(answer', 1, Len(answer)) = answer)
     => IsSubseq(Front(parts), parts')]_vars

\* C4: a StreamingCode segment is emitted only when the final fence marker of
\* the input is an opening fence with no closing fence: never when the
\* markers all pair up.
C4_StreamingOnlyWhenOpen ==
  (\E k \in DOMAIN parts : parts[k].type = "streaming-code")
    => EndsInOpenFence(answer)

\* C5: the output has at most one StreamingCode segment, which is then its
\* last element; every other segment is Prose or CompleteCode.
C5_StreamingIsLast ==
  \A k \in DOMAIN parts :
    /\ parts[k].type \in {"text", "code", "streaming-code"}
    /\ parts[k].type = "streaming-code" => k = Len(parts)

\* A StreamingCode tail follows a CompleteCode and a Prose segment.
C5_Witness ==
  /\ Len(parts) >= 3
  /\ Last(parts).type = "streaming-code"
  /\ \E k \in DOMAIN parts : parts[k].type = "code"
  /\ \E k \in DOMAIN parts : parts[k].type = "text"

\* C6, as claimed: for the empty input renderStreamingContent and
\* renderWithCodeBlocks return the empty segment sequence.
C6_EmptyInputNoSegments ==
  answer = <<>> => parts = <<>> /\ renderWithCodeBlocks(answer) = <<>>

\* C6, amended: for the empty input renderStreamingContent and
\* renderWithCodeBlocks return exactly one segment, a Prose segment rendered
\* from the empty text.
C6_EmptyInputOneProse ==
  answer = <<>> =>
    /\ parts = <<[type |-> "text", content |-> render(<<>>)]>>
    /\ renderWithCodeBlocks(answer) = parts

\* The empty answer has been split.
C6_Witness == answer = <<>> /\ Len(parts) = 1 /\ parts[1].type = "text"

\* C7: an input with no triple backtick (whitespace-only input included)
\* yields exactly one segment, Prose rendered from the whole buffer, and no
\* code segment of either kind.
C7_NoFenceOneProse ==
  FenceAt(answer) = {} =>
    /\ parts = <<[type |-> "text", content |-> render(answer)]>>
    /\ renderWithCodeBlocks(answer) = parts

\* A text with backticks but no fence, and with whitespace at its edges, has
\* been split into one Prose segment.
C7_Witness ==
  /\ FenceAt(answer) = {}
  /\ Len(answer) >= 4
  /\ \E k \in DOMAIN answer : answer[k] = BT
  /\ IsSpace(Head(answer))
  /\ Len(parts) = 1
  /\ parts[1].type = "text"

\* C8: an input that starts with a fence with no tag, followed by a newline
\* and a body that is not blank, and has no closing fence yields exactly one
\* segment:
\* StreamingCode with language "" and the text after the fence line.
C8_UntaggedOpenFence ==
  (/\ FenceAt(answer) = {0}
   /\ Ch(answer, 3) = NL
   /\ Trim(Slice(answer, 4, Len(answer))) # <<>>)
  => parts = <<[type |-> "streaming-code",
                language |-> <<>>,
                content |-> Slice(answer, 4, Len(answer))]>>

\* C9: a lone triple backtick, alone or after a prefix, is an opening
\* marker: the output ends with a StreamingCode segment with empty content.
C9_LoneFence ==
  (Len(answer) >= 3 /\ FenceAt(answer) = {Len(answer) - 3})
  => HasStreamingTail(parts) /\ Last(parts).content = <<>>

\* C10: the text rendered for a Prose segment contains no triple backtick.
C10_ProseHasNoFence ==
  \A k \in DOMAIN parts :
    parts[k].type = "text" => FenceAt(parts[k].content.markdown) = {}

\* The index at which the line of the fence at index i ends: the next newline,
\* the next fence, or the end of the text.
FenceLineEnd(s, i) ==
  Min({e \in (i + 3)..Len(s) :
         e = Len(s) \/ Ch(s, e) = NL \/ MatchesAt(s, Fence, e)})

\* The text that follows the fence at index i on its line.
FenceLine(s, i) == Slice(s, i + 3, FenceLineEnd(s, i))

\* The fence line starts like a tag and holds a character that is not a word
\* character, as "c++" does.
HasNonWordTag(s, i) ==
  /\ IsWord(Ch(s, i + 3))
  /\ \E k \in DOMAIN FenceLine(s, i) : ~IsWord(FenceLine(s, i)[k])

IsCodeSegment(p) == p.type \in {"code", "streaming-code"}

\* C11: when the text that follows an opening fence on its line contains a
\* character that is not a word character, the code segment emitted for that
\* fence (complete or streaming) has the empty language.  Stated for inputs
\* whose only fences are that opening fence and, possibly, its closing fence.
C11_NonWordTagIsNoTag ==
  \A i \in FenceAt(answer) :
    (/\ i = Min(FenceAt(answer))
     /\ Cardinality(FenceAt(answer)) <= 2
     /\ HasNonWordTag(answer, i))
    => \A k \in DOMAIN parts :
         IsCodeSegment(parts[k]) => parts[k].language = <<>>

\* C13: no CompleteCode or StreamingCode segment has a triple backtick in its
\* content: the fence markers are delimiters, never code.
C13_CodeHasNoFence ==
  /\ \A k \in DOMAIN parts :
       IsCodeSegment(parts[k]) => FenceAt(parts[k].content) = {}
  /\ \A k \in DOMAIN renderWithCodeBlocks(answer) :
       IsCodeSegment(renderWithCodeBlocks(answer)[k])
         => FenceAt(renderWithCodeBlocks(answer)[k].content) = {}

\* A streaming tail that follows a complete block carries a backtick in its
\* content.
C13_Witness ==
  /\ \E k \in DOMAIN parts : parts[k].type = "code"
  /\ HasStreamingTail(parts)
  /\ \E c \in DOMAIN Last(parts).content : Last(parts).content[c] = BT

IsCompleteCode(p) == p.type = "code"

\* The complete blocks of s when its fence markers pair up from left to right:
\* the k-th block runs from marker 2k-1 to marker 2k.
PairedBlocks(s) ==
  [k \in 1..(Len(Markers(s)) \div 2) |->
     [type |-> "code",
      language |-> TagAfter(s, Markers(s)[2 * k - 1]),
      content |-> Trim(TextAfterFenceLine(Slice(s, 0, Markers(s)[2 * k]),
                                          Markers(s)[2 * k - 1]))]]

\* C14: fences do not nest: the CompleteCode segments are the blocks of the
\* fence markers paired from left to right, and a marker that closes a block
\* never opens a StreamingCode segment (a streaming tail opens only at a last
\* marker that no marker before it is left to pair with).
C14_FencesPairLeftToRight ==
  /\ SelectSeq(parts, IsCompleteCode) = PairedBlocks(answer)
  /\ HasStreamingTail(parts) => EndsInOpenFence(answer)

\* Index i of s lies in a fence marker.
InFence(s, i) == \E f \in FenceAt(s) : f <= i /\ i < f + 3

\* Index i of s lies in the run of word characters that follows an opening
\* fence: a marker with an even number of markers before it.
InOpeningTag(s, i) ==
  \E k \in DOMAIN Markers(s) :
    /\ k % 2 = 1
    /\ Markers(s)[k] + 3 <= i
    /\ i < Markers(s)[k] + 3 + WordRun(s, Markers(s)[k] + 3)

\* The segment p is what the splitter makes of the source substring src.
IsSegmentOf(p, src) ==
  \/ /\ p.type = "text"
     /\ p.content \in {render(cleanText(src)), render(src)}
  \/ /\ p.type = "code"
     /\ codeBlockWays(src, 0) # {}
     /\ p = codePart(codeBlockMatchAt(src, 0))
  \/ /\ p.type = "streaming-code"
     /\ MatchesAt(src, Fence, 0)
     /\ p.language = incompleteMatch(src).language
     /\ p.content = incompleteMatch(src).body

\* C15: the segments come, in source order, from pairwise disjoint spans of
\* the input, and every character outside these spans is part of a fence
\* marker, part of the tag that follows an opening fence, or whitespace.
C15_SpansCoverInput ==
  LET spans == spansStreamingContent(answer)
  IN  /\ Len(spans) = Len(parts)
      /\ \A k \in DOMAIN spans :
           /\ 0 <= spans[k].from
           /\ spans[k].from <= spans[k].to
           /\ spans[k].to <= Len(answer)
           /\ k < Len(spans) => spans[k].to <= spans[k + 1].from
           /\ IsSegmentOf(parts[k], Slice(answer, spans[k].from, spans[k].to))
      /\ \A i \in 0..(Len(answer) - 1) :
           (\A k \in DOMAIN spans : i < spans[k].from \/ spans[k].to <= i)
           => \/ IsSpace(Ch(answer, i))
              \/ InFence(answer, i)
              \/ InOpeningTag(answer, i)

\* A span of the input between two segments is left out: it holds a fence
\* and its tag.
C15_Witness ==
  LET spans == spansStreamingContent(answer)
  IN  /\ Len(parts) >= 2
      /\ \E i \in 0..(Len(answer) - 1) :
           /\ \A k \in DOMAIN spans : i < spans[k].from \/ spans[k].to <= i
           /\ IsWord(Ch(answer, i))
           /\ i < spans[Len(spans)].from

\* C20: when the output ends in a StreamingCode tail, the segments before it
\* are renderWithCodeBlocks of the text before the opening marker (the last
\* fence of the text), and the tail's content is the raw text after the
\* marker, its word-character tag and at most one newline: not rendered and
\* not trimmed.
C20_StreamingTailIsRaw ==
  HasStreamingTail(parts) =>
    LET open == Max(FenceAt(answer))
    IN  /\ Front(parts) = renderWithCodeBlocks(Slice(answer, 0, open))
        /\ Last(parts).language = TagAfter(answer, open)
        /\ Last(parts).content = TextAfterFenceLine(answer, open)

\* A streaming tail after another segment: the newline of its fence line is
\* dropped and the whitespace around its content is kept.
C20_Witness ==
  /\ HasStreamingTail(parts)
  /\ Len(parts) >= 2
  /\ Last(parts).content # Trim(Last(parts).content)
  /\ Trim(Last(parts).content) # <<>>
  /\ Ch(answer, Max(FenceAt(answer)) + 3 + Len(Last(parts).language)) = NL

(***************************************************************************)
(* The properties of the CodeBlock.                                        *)
(***************************************************************************)
\* The languages that can be run.
AllowList == {javascript, python, html, css}

\* The effective language of the segment the CodeBlock shows: its fence tag
\* in lower case, or the language detected from the code when it has no tag.
EffectiveLanguage ==
  LET tag == parts[codeSlot(parts)].language
  IN  IF tag = <<>> THEN autoDetect(block.editedCode) ELSE toLowerCase(tag)

\* C16: the run button is offered if and only if the effective language of
\* the segment (its lower-cased tag, or the detected language when it has no
\* tag) is javascript, python, html or css; copy and edit are always offered.
C16_RunOfferedIffAllowed ==
  /\ "run" \in codeActions <=> EffectiveLanguage \in AllowList
  /\ {"copy", "edit"} \subseteq codeActions

\* An untagged block whose code was edited into one that is detected as a
\* language of the allow-list: its run button is offered now, and was not
\* for the code of the message.
C16_Witness ==
  /\ language = <<>>
  /\ block.editedCode # code
  /\ autoDetect(code) \notin AllowList
  /\ "run" \in codeActions

\* C17: when the promise of a language executor is rejected, executeCode
\* catches the failure: it ends with isRunning false, executionStatus
\* 'error' and output 'Error: ' followed by the message of the failure, and
\* the message and its segments are as they were.
C17_ExecutorFailureIsCaught ==
  [][(exec.pc = "settle" /\ ~exec.ok) =>
       /\ ~block'.isRunning
       /\ block'.executionStatus = "error"
       /\ block'.output = msgError \o exec.value
       /\ exec'.pc = "idle"
       /\ answer' = answer
       /\ parts' = parts]_vars

\* An execution has failed and its failure is shown.
C17_Witness ==
  /\ ~block.isRunning
  /\ block.executionStatus = "error"
  /\ block.output = msgError \o msgOriginalLog
  /\ exec.pc = "idle"

\* C18: executeCode called with an effective language outside the
\* allow-list ends at once with executionStatus 'success' and the output
\* 'Execution not supported for <lang> language yet.'
C18_UnsupportedLanguageSucceeds ==
  [][(/\ ~block.isRunning
      /\ exec.pc = "idle"
      /\ EffectiveLanguage \notin AllowList
      /\ <<block.output, block.executionStatus>>'
           # <<block.output, block.executionStatus>>) =>
       /\ ~block'.isRunning
       /\ block'.executionStatus = "success"
       /\ block'.output
            = msgNotSupported \o EffectiveLanguage \o msgLanguageYet
       /\ exec'.pc = "idle"]_vars

\* executeCode has been called for a language outside the allow-list.
C18_Witness ==
  /\ EffectiveLanguage \notin AllowList
  /\ block.executionStatus = "success"
  /\ block.output = msgNotSupported \o EffectiveLanguage \o msgLanguageYet

\* A step of an execution: the call in flight, or the execution state of
\* the block, changes.
RunStep ==
  \/ exec' # exec
  \/ block'.isRunning # block.isRunning
  \/ block'.executionStatus # block.executionStatus
  \/ block'.output # block.output
  \/ block'.pyodide # block.pyodide
  \/ block'.pyodideLoading # block.pyodideLoading

\* C19: a step of an execution leaves the props code and language, the
\* editedCode and the editor of the block, and the message with its
\* segments unchanged.
C19_RunLeavesSegmentAlone ==
  [][RunStep =>
       /\ code' = code
       /\ language' = language
       /\ block'.editedCode = block.editedCode
       /\ block'.isEditing = block.isEditing
       /\ answer' = answer
       /\ parts' = parts]_vars

\* An edited code has been run to its end.
C19_Witness ==
  /\ block.editedCode # code
  /\ block.executionStatus = "success"
  /\ block.pyodide

\* C21: executeJavaScript overrides console.log, console.error and
\* console.warn only for the time of the call: after every step of the
\* CodeBlock, whether the call resolved or rejected, the three methods are
\* the functions they were before it.
C21_ConsoleIsRestored ==
  [][console' = console]_vars

\* C29: a CodeBlock has at most one execution in flight.  An execution
\* starts only while isRunning is false, and sets isRunning and the status
\* 'running'; while it is in flight no other one starts; isRunning becomes
\* false only when it settles, with the status 'success' or 'error'; and
\* isRunning is true exactly when the status is 'running'.
C29_OneExecutionInFlight ==
  [][/\ block'.isRunning <=> block'.executionStatus = "running"
     /\ block'.isRunning <=> exec'.pc # "idle"
     /\ (exec.pc = "idle" /\ exec'.pc # "idle") =>
          /\ ~block.isRunning
          /\ block'.isRunning
     /\ (exec.pc # "idle" /\ exec'.pc # "idle" /\ exec' # exec) =>
          /\ exec'.code = exec.code
          /\ exec.pc # "settle"
          /\ exec'.pc # "loadPyodide"
     /\ (block.isRunning /\ ~block'.isRunning) =>
          /\ exec.pc = "settle"
          /\ block'.executionStatus \in {"success", "error"}]_vars

\* An execution is in flight, waiting for a timer, and the code has been
\* edited since it started.
C29_Witness ==
  /\ block.isRunning
  /\ exec.pc = "simulation"
  /\ block.editedCode # exec.code

\* C30: editedCode is the code prop after every change of the prop and
\* after Cancel; it changes otherwise only by an edit in the open editor;
\* copy writes editedCode and run executes editedCode.
C30_EditedCodeFollowsProp ==
  [][/\ code' # code => block'.editedCode = code'
     /\ ClickCancel => block'.editedCode = code'
     /\ block'.editedCode # block.editedCode =>
          \/ block'.editedCode = code'
          \/ block.isEditing /\ block'.isEditing
     /\ clipboard' # clipboard => clipboard' = block.editedCode
     /\ (exec.pc = "idle" /\ exec'.pc # "idle") =>
          exec'.code = block.editedCode]_vars

\* The streamed code has grown while the editor was in use: the editor is
\* open, editedCode is the grown code, and an edit that was copied before
\* is still in the clipboard.
C30_Witness ==
  /\ block.isEditing
  /\ Len(code) >= 2
  /\ block.editedCode = code
  /\ clipboard \in CodeSamples
  /\ parts[Len(parts)].type = "streaming-code"

(***************************************************************************)
(* The App and the worker.                                                 *)
(***************************************************************************)
\* The number of 'generate' requests among the given ones.
Generates(reqs) == Cardinality({i \in DOMAIN reqs : reqs[i] = "generate"})

\* The step appends a message of the user: a submission.
Submits ==
  /\ Len(messages') = Len(messages) + 1
  /\ messages'[Len(messages')].role = "user"

\* C22: a step that appends a message of the user posts exactly one
\* 'generate', every other step (a response of the worker handled, a
\* render, a step of the worker, a click that is no submission) posts none,
\* and when a 'generate' is posted the last message is not of the
\* assistant.
C22_OneGeneratePerSubmission ==
  [][/\ Submits => Generates(posted') = Generates(posted) + 1
     /\ ~Submits => Generates(posted') = Generates(posted)
     /\ Generates(posted') # Generates(posted) =>
          messages'[Len(messages')].role # "assistant"]_vars

\* Two submissions have been answered, 'start' and 'complete' rendered, and
\* two requests were posted.
C22_Witness ==
  /\ Generates(posted) = 2
  /\ Len(messages) = 4
  /\ messages[4].role = "assistant"
  /\ ~isRunning
  /\ dirty = clean

\* Message: thinking, the content before answerIndex (String.prototype.slice
\* clamps its indices to the length).
thinkingOf(m) ==
  IF m.answerIndex # Undefined
  THEN Slice(m.content, 0, Min({m.answerIndex, Len(m.content)}))
  ELSE m.content

\* Message: answer, the content from answerIndex.
answerOf(m) ==
  IF m.answerIndex # Undefined
  THEN Slice(m.content, Min({m.answerIndex, Len(m.content)}), Len(m.content))
  ELSE <<>>

\* The step handles an 'update' of the given state.
HandlesUpdate(state) ==
  /\ inbox # <<>>
  /\ Head(inbox).status = "update"
  /\ Head(inbox).state = state
  /\ inbox' = Tail(inbox)

\* C23: a message's answerIndex, once set, never changes; it is set only
\* for the last message, by the handler of an 'update' whose state is
\* 'answering', to the length the content had before that update; the
\* first such update sets it; and in every state a set answerIndex lies
\* between 0 and the length of the content, so that thinking followed by
\* answer is the content.
C23_AnswerIndexSetOnce ==
  [][/\ \A i \in DOMAIN messages \cap DOMAIN messages' :
          /\ messages[i].answerIndex # Undefined =>
               messages'[i].answerIndex = messages[i].answerIndex
          /\ messages'[i].answerIndex # messages[i].answerIndex =>
               /\ i = Len(messages)
               /\ HandlesUpdate("answering")
               /\ messages'[i].answerIndex = Len(messages[i].content)
     /\ (/\ HandlesUpdate("answering")
         /\ messages # <<>>
         /\ messages[Len(messages)].answerIndex = Undefined) =>
          messages'[Len(messages)].answerIndex =
            Len(messages[Len(messages)].content)
     /\ \A i \in DOMAIN messages' :
          /\ messages'[i].answerIndex # Undefined =>
               /\ 0 <= messages'[i].answerIndex
               /\ messages'[i].answerIndex <= Len(messages'[i].content)
          /\ thinkingOf(messages'[i]) \o answerOf(messages'[i]) =
               messages'[i].content]_vars

\* An assistant message with some thinking and some answer: one update
\* before answerIndex was set and one after it have been handled.
C23_Witness ==
  \E i \in DOMAIN messages :
    /\ messages[i].role = "assistant"
    /\ messages[i].answerIndex = 1
    /\ Len(messages[i].content) = 3
    /\ inbox = <<>>

\* The step handles an 'update'.
HandlesAnyUpdate == \E state \in States : HandlesUpdate(state)

\* s is the beginning of t.
IsPrefix(s, t) == Len(s) <= Len(t) /\ SubSeq(t, 1, Len(s)) = s

\* C24: the handler of an 'update' leaves the length of the list and every
\* message but the last as they are, and the last message keeps its role
\* and gets its previous content followed by the update's output; and in
\* every step the content of a message that stays in the list has its
\* previous content as its beginning.
C24_UpdateAppendsToLast ==
  [][/\ (HandlesAnyUpdate /\ messages # <<>>) =>
          /\ Len(messages') = Len(messages)
          /\ \A i \in 1..(Len(messages) - 1) : messages'[i] = messages[i]
          /\ messages'[Len(messages)].role = messages[Len(messages)].role
          /\ messages'[Len(messages)].content =
               messages[Len(messages)].content \o Head(inbox).output
     /\ \A i \in DOMAIN messages \cap DOMAIN messages' :
          IsPrefix(messages[i].content, messages'[i].content)]_vars

\* The answer to a second submission has got its first character, after
\* the answer to the first one got one.
C24_Witness ==
  /\ Len(messages) = 4
  /\ Len(messages[2].content) = 1
  /\ Len(messages[4].content) = 1
  /\ inbox = <<>>

\* The step handles the response of the given status.
Handles(s) ==
  /\ inbox # <<>>
  /\ Head(inbox).status = s
  /\ inbox' = Tail(inbox)

\* C25: isRunning goes from false to true only in a step that appends a
\* message of the user (onEnter), and from true to false only in the step
\* that handles a 'complete'; and the step that posts an 'interrupt' posts
\* nothing else and leaves isRunning, messages, status, error and tps as
\* they are.
C25_IsRunningTransitions ==
  [][/\ (~isRunning /\ isRunning') => Submits
     /\ (isRunning /\ ~isRunning') => Handles("complete")
     /\ (posted' # posted /\ posted'[Len(posted')] = "interrupt") =>
          /\ posted' = Append(posted, "interrupt")
          /\ UNCHANGED <<isRunning, messages, status, error, tps, dirty>>]_vars

\* The user has clicked Stop during a generation, and the 'complete' that
\* followed, not the click, unlocked the input.
C25_Witness ==
  /\ Requests("interrupt") # {}
  /\ Len(messages) = 2
  /\ messages[2].content # <<>>
  /\ ~isRunning
  /\ dirty = clean

\* C26: whenever isRunning is true it is false again later, under a worker
\* that ends every generation by 'complete' or by 'error' and an event
\* loop that delivers its responses.
C26_InputUnlocks == isRunning ~> ~isRunning

\* The roles alternate, beginning with the user.
Alternates(msgs) ==
  \A i \in DOMAIN msgs :
    msgs[i].role = IF i % 2 = 1 THEN "user" ELSE "assistant"

\* C27: under a worker that answers a 'generate' with 'start', 'update's
\* and 'complete' (or breaks off with 'error'), the roles of the list
\* alternate in every state, beginning with the user; a step that appends
\* a message of the user starts with isRunning false; and a step that
\* empties the list starts and ends with isRunning false.
C27_ListAlternates ==
  [][/\ Alternates(messages')
     /\ Submits => ~isRunning
     /\ (messages # <<>> /\ messages' = <<>>) => ~isRunning /\ ~isRunning']_vars

\* After a Reset Chat a new conversation has been answered.
C27_Witness ==
  /\ Requests("reset") # {}
  /\ Len(messages) = 2
  /\ messages[2].role = "assistant"
  /\ ~isRunning

\* The number of 'load' requests among the given ones.
Loads(reqs) == Cardinality({i \in DOMAIN reqs : reqs[i] = "load"})

====
